---- MODULE Spec2Model ----
(***************************************************************************)
(* SemanticTextSplitter.split_pages, in its two variants:                  *)
(*   textsplitter_without_embedding.py  the pure pipeline (chunk, then     *)
(*                                      attribute every chunk to a page)   *)
(*   textsplitter.py                    the storage-coupled pipeline       *)
(*                                      (chunk, embed, collection.add)     *)
(* Text is a sequence of one-character strings; Python indices are kept    *)
(* 0-based (Slice, find, offsets), sequences are TLA+'s 1-based ones.      *)
(* The chunker, the embedding function and the collection are external     *)
(* providers: what they return, and whether they raise, is chosen          *)
(* nondeterministically.                                                   *)
(***************************************************************************)
EXTENDS Integers, Sequences, FiniteSets, TLC

VARIABLES
    variant,         \* "pure" | "store": which module's split_pages runs
    inv,             \* number of the current split_pages invocation
    pages,           \* the argument: a sequence of Page records
    pc,              \* the generator: "created" | "suspended" | "done" | "failed"
    all_text,        \* all_text / full_text
    chunks,          \* what chunker.split_text returned (strings)
    origin,          \* history: where the chunker took each chunk from (-1: nowhere)
    current_offset,  \* the search cursor of the pure pipeline
    trace,           \* history: chunk_start and current_offset after each iteration
    embeddings,      \* the embeddings list of the storage-coupled pipeline
    addArgs,         \* history: the arguments of this invocation's collection.add
    collection,      \* the module-level Chroma collection: id -> document, embedding
    usedIds,         \* history: the ids under which earlier invocations stored chunks
    yielded,         \* the SplitPage values the consumer has received
    calls,           \* history: provider calls made by this invocation
    query,           \* the argument of a direct find_page call
    found            \* its result

vars == <<variant, inv, pages, pc, all_text, chunks, origin, current_offset, trace,
          embeddings, addArgs, collection, usedIds, yielded, calls, query, found>>

----------------------------------------------------------------------------
(* Bounds of the model. *)

MaxPages == 2

MaxChunks == 2

MaxOffset == 3

MaxInvocations == 2

\* SemanticTextSplitter(max_chunk_size=...), scaled down from the default 500
max_chunk_size == 1

Whitespace == {" "}

\* The texts a page of a generated document may hold.
PageTexts == {<<>>, <<" ">>, <<"a">>, <<"a", "a">>}

\* Page numbering starts at 0 or at 1, depending on the document source.
FirstPageNums == {0, 1}

----------------------------------------------------------------------------
(* Strings. *)

Min(S) == CHOOSE x \in S : \A y \in S : x <= y

\* s[i:j] for 0 <= i <= j <= len(s)
Slice(s, i, j) == SubSeq(s, i + 1, j)

RECURSIVE LStrip(_)
LStrip(s) == IF s # <<>> /\ Head(s) \in Whitespace THEN LStrip(Tail(s)) ELSE s

RECURSIVE RStrip(_)
RStrip(s) ==
    IF s # <<>> /\ s[Len(s)] \in Whitespace THEN RStrip(SubSeq(s, 1, Len(s) - 1)) ELSE s

\* a plausible slip: testing the text itself, not the stripped text
strip_nothing(s) == s

\* str.strip()
strip(s) == RStrip(LStrip(s))

\* a plausible slip: the cursor is not passed to find
find_from_start(s, sub, start) ==
    LET hits == {i \in 0..(Len(s) - Len(sub)) : Slice(s, i, i + Len(sub)) = sub}
    IN  IF hits = {} THEN -1 ELSE Min(hits)

\* str.find(sub, start): the lowest index >= start where sub occurs, or -1
find(s, sub, start) ==
    LET hits == {i \in start..(Len(s) - Len(sub)) : Slice(s, i, i + Len(sub)) = sub}
    IN  IF hits = {} THEN -1 ELSE Min(hits)

RECURSIVE JoinWith(_, _)
JoinWith(sep, ps) ==
    IF ps = <<>> THEN <<>>
    ELSE IF Len(ps) = 1 THEN ps[1].text
    ELSE ps[1].text \o sep \o JoinWith(sep, Tail(ps))

\* a plausible slip: " ".join instead of "".join
JoinSpaced(ps) == JoinWith(<<" ">>, ps)

\* "".join(page.text for page in pages)
Join(ps) == JoinWith(<<>>, ps)

----------------------------------------------------------------------------
(* find_page, the closure of the pure split_pages. *)

\* the loop "for i in range(len(pages) - 1)" from i on, then the fall-through
RECURSIVE FindPageFrom(_, _, _)
FindPageFrom(ps, offset, i) ==
    IF i >= Len(ps) - 1 THEN ps[Len(ps)].page_num
    ELSE IF offset >= ps[i + 1].offset /\ offset < ps[i + 2].offset
         THEN ps[i + 1].page_num
         ELSE FindPageFrom(ps, offset, i + 1)

\* a plausible slip: <= for the upper end of a page
RECURSIVE FindPageFromLe(_, _, _)
FindPageFromLe(ps, offset, i) ==
    IF i >= Len(ps) - 1 THEN ps[Len(ps)].page_num
    ELSE IF offset >= ps[i + 1].offset /\ offset <= ps[i + 2].offset
         THEN ps[i + 1].page_num
         ELSE FindPageFromLe(ps, offset, i + 1)

find_page_le(ps, offset) == FindPageFromLe(ps, offset, 0)

\* a plausible slip: the fall-through returns the first page, not the last
RECURSIVE FindPageFromFirst(_, _, _)
FindPageFromFirst(ps, offset, i) ==
    IF i >= Len(ps) - 1 THEN ps[1].page_num
    ELSE IF offset >= ps[i + 1].offset /\ offset < ps[i + 2].offset
         THEN ps[i + 1].page_num
         ELSE FindPageFromFirst(ps, offset, i + 1)

find_page_first(ps, offset) == FindPageFromFirst(ps, offset, 0)

find_page(ps, offset) == FindPageFrom(ps, offset, 0)

----------------------------------------------------------------------------
(* Documents. *)

RECURSIVE Repeat(_, _)
Repeat(c, n) == IF n <= 0 THEN <<>> ELSE <<c>> \o Repeat(c, n - 1)

RECURSIVE SumLen(_, _)
SumLen(texts, n) == IF n = 0 THEN 0 ELSE SumLen(texts, n - 1) + Len(texts[n])

\* Pages as a document source produces them: numbered in order, each page's
\* offset the sum of the lengths of the texts before it, plus `first`.
MakePages(texts, num, first) ==
    [i \in 1..Len(texts) |->
        [page_num |-> num + i - 1, offset |-> first + SumLen(texts, i - 1), text |-> texts[i]]]

PageTextSeqs == UNION {[1..n -> PageTexts] : n \in 0..MaxPages}

PurePageSeqs == {MakePages(t, num, 0) : t \in PageTextSeqs, num \in FirstPageNums}

NonDecreasing(offs) == \A i \in 1..(Len(offs) - 1) : offs[i] <= offs[i + 1]

OffsetSeqs == {offs \in UNION {[1..n -> 0..MaxOffset] : n \in 1..MaxPages} : NonDecreasing(offs)}

\* The texts of a document whose pages start at the given offsets.
TextsAt(offs) ==
    [i \in 1..Len(offs) |->
        IF i < Len(offs) THEN Repeat("a", offs[i + 1] - offs[i]) ELSE <<"a">>]

\* Non-empty page sequences with every pattern of non-decreasing offsets.
OffsetPageSeqs == {MakePages(TextsAt(offs), num, offs[1]) : offs \in OffsetSeqs, num \in FirstPageNums}

NoCalls == [split_text |-> 0, embed |-> 0, add |-> 0]

NoArgs == [documents |-> <<>>, embeddings |-> <<>>, ids |-> <<>>, called |-> FALSE]

Idle ==
    /\ inv = 1
    /\ pc = "created"
    /\ all_text = <<>>
    /\ chunks = <<>>
    /\ origin = <<>>
    /\ current_offset = 0
    /\ trace = <<>>
    /\ embeddings = <<>>
    /\ addArgs = NoArgs
    /\ collection = <<>>
    /\ usedIds = {}
    /\ yielded = <<>>
    /\ calls = NoCalls
    /\ query = -1
    /\ found = -1

----------------------------------------------------------------------------
(* find_page called on its own. *)

InitFindPage ==
    /\ variant = "pure"
    /\ pages \in OffsetPageSeqs
    /\ Idle

CallFindPage ==
    /\ \E o \in 0..(MaxOffset + 1) :
        /\ query' = o
        /\ found' = find_page(pages, o)
    /\ UNCHANGED <<variant, inv, pages, pc, all_text, chunks, origin, current_offset,
                   trace, embeddings, addArgs, collection, usedIds, yielded, calls>>

NextFindPage == CallFindPage

SpecFindPage == InitFindPage /\ [][NextFindPage]_vars

----------------------------------------------------------------------------
(* The providers. *)

Foreign == <<"z">>

\* What chunker.split_text may hand back for one chunk: a span of the text of
\* up to max_chunk_size + 1 characters (a provider may break its size bound),
\* remembered with the offset it was taken from, or a string that is not in
\* the text at all.
ChunkCandidates(text) ==
    {[text |-> Slice(text, sp[1], sp[1] + sp[2]), start |-> sp[1]] :
        sp \in {x \in (0..(Len(text) - 1)) \X (1..(max_chunk_size + 1)) :
                    x[1] + x[2] <= Len(text)}}
    \cup {[text |-> Foreign, start |-> -1]}

\* chunker.split_text(text): any list of up to MaxChunks such chunks.
ChunkerOutputs(text) == UNION {[1..n -> ChunkCandidates(text)] : n \in 0..MaxChunks}

TextsOf(out) == [k \in 1..Len(out) |-> out[k].text]

StartsOf(out) == [k \in 1..Len(out) |-> out[k].start]

----------------------------------------------------------------------------
(* The pure pipeline: textsplitter_without_embedding.py. *)

\* a plausible slip: the cursor moves past a chunk that was not found
IterateSkipping(text, chunk, cur, ps) ==
    LET chunk_start == find(text, chunk, cur)
    IN  IF chunk_start = -1
        THEN [chunk_start |-> -1, page_num |-> 0, current_offset |-> cur + Len(chunk)]
        ELSE [chunk_start |-> chunk_start,
              page_num |-> find_page(ps, chunk_start),
              current_offset |-> chunk_start + Len(chunk)]

\* One iteration of "for chunk in chunks", up to its yield.
Iterate(text, chunk, cur, ps) ==
    LET chunk_start == find(text, chunk, cur)
    IN  IF chunk_start = -1
        THEN [chunk_start |-> -1, page_num |-> 0, current_offset |-> cur]
        ELSE [chunk_start |-> chunk_start,
              page_num |-> find_page(ps, chunk_start),
              current_offset |-> chunk_start + Len(chunk)]

\* The generator runs to its next yield, or to its end.
PureResume(text, cs, cur) ==
    IF Len(yielded) < Len(cs)
    THEN LET chunk == cs[Len(yielded) + 1]
             it == Iterate(text, chunk, cur, pages)
         IN  /\ yielded' = Append(yielded, [page_num |-> it.page_num, text |-> chunk])
             /\ current_offset' = it.current_offset
             /\ trace' = Append(trace, [chunk_start |-> it.chunk_start,
                                        current_offset |-> it.current_offset])
             /\ pc' = "suspended"
    ELSE /\ pc' = "done"
         /\ current_offset' = cur
         /\ UNCHANGED <<yielded, trace>>

\* first next(): "if not pages: return"
PureStartNoPages ==
    /\ variant = "pure"
    /\ pc = "created"
    /\ pages = <<>>
    /\ pc' = "done"
    /\ UNCHANGED <<variant, inv, pages, all_text, chunks, origin, current_offset, trace,
                   embeddings, addArgs, collection, usedIds, yielded, calls, query, found>>

\* first next(): "if not all_text.strip(): return"
PureStartNoText ==
    /\ variant = "pure"
    /\ pc = "created"
    /\ pages # <<>>
    /\ strip(Join(pages)) = <<>>
    /\ all_text' = Join(pages)
    /\ pc' = "done"
    /\ UNCHANGED <<variant, inv, pages, chunks, origin, current_offset, trace,
                   embeddings, addArgs, collection, usedIds, yielded, calls, query, found>>

\* first next(): the text is split into one of `outputs`, what split_text may
\* return for it, and the loop runs to its first yield
PureStart(outputs) ==
    /\ variant = "pure"
    /\ pc = "created"
    /\ pages # <<>>
    /\ strip(Join(pages)) # <<>>
    /\ all_text' = Join(pages)
    /\ \E out \in outputs :
        /\ chunks' = TextsOf(out)
        /\ origin' = StartsOf(out)
    /\ calls' = [calls EXCEPT !.split_text = @ + 1]
    /\ PureResume(all_text', chunks', 0)
    /\ UNCHANGED <<variant, inv, pages, embeddings, addArgs, collection, usedIds,
                   query, found>>

PureStartSplit == PureStart(ChunkerOutputs(Join(pages)))

\* a later next()
PureNext ==
    /\ variant = "pure"
    /\ pc = "suspended"
    /\ PureResume(all_text, chunks, current_offset)
    /\ UNCHANGED <<variant, inv, pages, all_text, chunks, origin, embeddings, addArgs,
                   collection, usedIds, calls, query, found>>

----------------------------------------------------------------------------
(* The storage-coupled pipeline: textsplitter.py. *)

\* self.chunker.embedding_function(chunk): a list holding the chunk's vector
embedding_function(chunk) == <<[vector_of |-> chunk]>>

\* [self.chunker.embedding_function(chunk)[0] for chunk in chunks]
EmbedAll(cs) == [k \in 1..Len(cs) |-> embedding_function(cs[k])[1]]

\* f"chunk_{i}"
ChunkId(i) == <<"chunk_", i>>

\* a plausible slip: range(1, len(chunks) + 1)
ChunkIdsFromOne(cs) == [k \in 1..Len(cs) |-> ChunkId(k)]

\* [f"chunk_{i}" for i in range(len(chunks))]
ChunkIds(cs) == [k \in 1..Len(cs) |-> ChunkId(k - 1)]

\* a plausible slip: only the chunk about to be yielded is added
AddArgumentsFirst(cs, es) ==
    LET n == IF cs = <<>> THEN 0 ELSE 1
    IN  [documents |-> SubSeq(cs, 1, n), embeddings |-> SubSeq(es, 1, n),
         ids |-> [k \in 1..n |-> ChunkId(k - 1)], called |-> TRUE]

\* the keyword arguments of collection.add
AddArguments(cs, es) ==
    [documents |-> cs, embeddings |-> es, ids |-> ChunkIds(cs), called |-> TRUE]

Range(f) == {f[k] : k \in DOMAIN f}

Entry(args, id) ==
    LET k == CHOOSE j \in 1..Len(args.ids) : args.ids[j] = id
    IN  [document |-> args.documents[k], embedding |-> args.embeddings[k]]

\* collection.add where the provider overwrites an id it already holds
AddOverwriting(col, args) ==
    [id \in DOMAIN col \cup Range(args.ids) |->
        IF id \in Range(args.ids) THEN Entry(args, id) ELSE col[id]]

\* collection.add where the provider keeps what it holds and drops the duplicate
AddKeeping(col, args) ==
    [id \in DOMAIN col \cup Range(args.ids) |->
        IF id \in DOMAIN col THEN col[id] ELSE Entry(args, id)]

\* What a successful collection.add may leave in the collection.
AddOutcomes(col, args) == {AddOverwriting(col, args), AddKeeping(col, args)}

\* first next(): "if not full_text.strip(): return"
StoreStartNoText ==
    /\ variant = "store"
    /\ pc = "created"
    /\ strip(Join(pages)) = <<>>
    /\ all_text' = Join(pages)
    /\ pc' = "done"
    /\ UNCHANGED <<variant, inv, pages, chunks, origin, current_offset, trace,
                   embeddings, addArgs, collection, usedIds, yielded, calls, query, found>>

\* first next(): the text is split
StoreSplit ==
    /\ variant = "store"
    /\ pc = "created"
    /\ strip(Join(pages)) # <<>>
    /\ all_text' = Join(pages)
    /\ \E out \in ChunkerOutputs(all_text') : chunks' = TextsOf(out)
    /\ UNCHANGED <<variant, inv, pages, origin, current_offset, trace, query, found>>

\* first next(): the embedding function raises on the k-th chunk
StoreStartEmbedFails ==
    /\ StoreSplit
    /\ \E k \in 1..Len(chunks') : calls' = [split_text |-> 1, embed |-> k, add |-> 0]
    /\ pc' = "failed"
    /\ UNCHANGED <<embeddings, addArgs, collection, usedIds, yielded>>

\* first next(): every chunk is embedded, and collection.add raises
StoreStartAddFails ==
    /\ StoreSplit
    /\ embeddings' = EmbedAll(chunks')
    /\ calls' = [split_text |-> 1, embed |-> Len(embeddings'), add |-> 1]
    /\ addArgs' = AddArguments(chunks', embeddings')
    /\ pc' = "failed"
    /\ UNCHANGED <<collection, usedIds, yielded>>

\* first next(): every chunk is embedded and added, and the loop runs to its
\* first yield
StoreStartAdded ==
    /\ StoreSplit
    /\ embeddings' = EmbedAll(chunks')
    /\ calls' = [split_text |-> 1, embed |-> Len(embeddings'), add |-> 1]
    /\ addArgs' = AddArguments(chunks', embeddings')
    /\ collection' \in AddOutcomes(collection, addArgs')
    /\ IF chunks' = <<>>
       THEN pc' = "done" /\ yielded' = yielded
       ELSE pc' = "suspended" /\ yielded' = <<[page_num |-> 0, text |-> chunks'[1]]>>
    /\ UNCHANGED usedIds

\* a later next()
StoreNext ==
    /\ variant = "store"
    /\ pc = "suspended"
    /\ IF Len(yielded) < Len(chunks)
       THEN /\ yielded' = Append(yielded, [page_num |-> 0, text |-> chunks[Len(yielded) + 1]])
            /\ pc' = "suspended"
       ELSE /\ pc' = "done"
            /\ yielded' = yielded
    /\ UNCHANGED <<variant, inv, pages, all_text, chunks, origin, current_offset, trace,
                   embeddings, addArgs, collection, usedIds, calls, query, found>>

\* The documents given to the storage-coupled pipeline: no page, a blank page,
\* one page, two pages.
StoreTexts == {<<>>, << <<" ">> >>, << <<"a">> >>, << <<"a">>, <<"a">> >>}

StorePageSeqs == {MakePages(t, 0, 0) : t \in StoreTexts}

\* split_pages is called again, on another document: a new generator, the
\* same module-level collection.
StoreNewInvocation ==
    /\ variant = "store"
    /\ pc # "created"
    /\ inv < MaxInvocations
    /\ inv' = inv + 1
    /\ pages' \in StorePageSeqs
    /\ pc' = "created"
    /\ all_text' = <<>>
    /\ chunks' = <<>>
    /\ embeddings' = <<>>
    /\ addArgs' = NoArgs
    /\ yielded' = <<>>
    /\ calls' = NoCalls
    /\ usedIds' = DOMAIN collection
    /\ UNCHANGED <<variant, origin, current_offset, trace, collection, query, found>>

----------------------------------------------------------------------------
(* Either module, from the call of split_pages on. *)

Init ==
    /\ \/ variant = "pure" /\ pages \in PurePageSeqs
       \/ variant = "store" /\ pages \in StorePageSeqs
    /\ Idle

Next ==
    \/ PureStartNoPages
    \/ PureStartNoText
    \/ PureStartSplit
    \/ PureNext
    \/ StoreStartNoText
    \/ StoreStartEmbedFails
    \/ StoreStartAddFails
    \/ StoreStartAdded
    \/ StoreNext
    \/ StoreNewInvocation

Spec == Init /\ [][Next]_vars

----------------------------------------------------------------------------
(* The two-page document "Cats are mammals. " / "Dogs are mammals too.". *)

Sentence1 ==
    <<"C", "a", "t", "s", " ", "a", "r", "e", " ", "m", "a", "m", "m", "a", "l", "s", ".", " ">>

Sentence2 ==
    <<"D", "o", "g", "s", " ", "a", "r", "e", " ", "m", "a", "m", "m", "a", "l", "s", " ", "t", "o", "o", ".">>

\* The second page's offset: where its text starts in the concatenation, or
\* one past it.
ScenarioOffsets == {Len(Sentence1), Len(Sentence1) + 1}

ScenarioPages(o) ==
    <<[page_num |-> 0, offset |-> 0, text |-> Sentence1],
      [page_num |-> 1, offset |-> o, text |-> Sentence2]>>

\* chunker.split_text with room for the whole text in one chunk, or cutting
\* it in two at any place, the first chunk with or without its trailing
\* whitespace.
ScenarioOutputs(text) ==
    {<<[text |-> text, start |-> 0]>>}
    \cup {<<[text |-> Slice(text, 0, k), start |-> 0],
            [text |-> Slice(text, k, Len(text)), start |-> k]>> : k \in 1..(Len(text) - 1)}
    \cup {<<[text |-> RStrip(Slice(text, 0, k)), start |-> 0],
            [text |-> Slice(text, k, Len(text)), start |-> k]>> : k \in 1..(Len(text) - 1)}

ScenarioStartSplit == PureStart(ScenarioOutputs(Join(pages)))

InitScenario ==
    /\ variant = "pure"
    /\ pages \in {ScenarioPages(o) : o \in ScenarioOffsets}
    /\ Idle

NextScenario ==
    \/ ScenarioStartSplit
    \/ PureNext

SpecScenario == InitScenario /\ [][NextScenario]_vars

----------------------------------------------------------------------------
(* The claims. *)

Max(S) == CHOOSE x \in S : \A y \in S : y <= x

Called == query # -1

\* C1 as stated: find_page(pages[i].offset) returns pages[i].page_num for
\* every index i, also when two adjacent pages share the offset.
C1_EveryPageAtItsOffset ==
    Called => \A i \in 1..Len(pages) :
        pages[i].offset = query => found = pages[i].page_num

\* C1, amended: find_page(pages[i].offset) returns pages[i].page_num for
\* every page that is the last one with that offset (for every page, when the
\* offsets are strictly increasing).
C1_LastPageAtItsOffset ==
    Called => \A i \in 1..Len(pages) :
        (/\ pages[i].offset = query
         /\ (i = Len(pages) \/ pages[i + 1].offset > query))
        => found = pages[i].page_num

\* find_page was called with the offset two adjacent pages share, and returned
\* the later page.
C1_Witness ==
    /\ Called
    /\ \E i \in 1..(Len(pages) - 1) :
        /\ pages[i].offset = query
        /\ pages[i + 1].offset = query
        /\ found = pages[i + 1].page_num
        /\ found # pages[i].page_num

\* bisect_right over the offsets: the number of pages whose offset is <= o
RECURSIVE BisectRight(_, _, _, _)
BisectRight(ps, o, lo, hi) ==
    IF lo >= hi THEN lo
    ELSE LET mid == (lo + hi) \div 2
         IN  IF o < ps[mid + 1].offset
             THEN BisectRight(ps, o, lo, mid)
             ELSE BisectRight(ps, o, mid + 1, hi)

BinarySearchPage(ps, o) == ps[BisectRight(ps, o, 0, Len(ps))].page_num

LastPageAtOrBefore(ps, o) == ps[Max({i \in 1..Len(ps) : ps[i].offset <= o})].page_num

\* C10: for an offset >= pages[0].offset the linear scan returns what a binary
\* search over the offsets returns, the page_num of the last page whose offset
\* is <= the offset; at or past the last page's offset, the last page.
C10_LinearScanIsBinarySearch ==
    (Called /\ query >= pages[1].offset) =>
        /\ found = BinarySearchPage(pages, query)
        /\ found = LastPageAtOrBefore(pages, query)
        /\ (query >= pages[Len(pages)].offset => found = pages[Len(pages)].page_num)

\* find_page was called with an offset past the last of several pages.
C10_Witness ==
    /\ Called
    /\ Len(pages) >= 2
    /\ query > pages[Len(pages)].offset
    /\ pages[1].offset < pages[Len(pages)].offset
    /\ found = pages[Len(pages)].page_num

AllWhitespace(s) == \A i \in 1..Len(s) : s[i] \in Whitespace

BlankInput == \A i \in 1..Len(pages) : AllWhitespace(pages[i].text)

\* C2: in both variants, an empty page list or pages holding only whitespace
\* yield no chunk and cause no call of split_text, of the embedding function
\* or of collection.add.
C2_BlankInputNoCalls ==
    BlankInput =>
        /\ yielded = <<>>
        /\ calls = NoCalls
        /\ ~addArgs.called
        /\ pc \in {"created", "done"}

\* The storage-coupled generator was run on a page of whitespace and ended.
C2_Witness ==
    /\ variant = "store"
    /\ pages # <<>>
    /\ BlankInput
    /\ Join(pages) # <<>>
    /\ pc = "done"

PageIndexAt(s) ==
    CHOOSE i \in 1..Len(pages) :
        pages[i].offset <= s /\ s < pages[i].offset + Len(pages[i].text)

PureRan == variant = "pure" /\ calls.split_text = 1

\* The chunker took its chunks from the text one after the other.
InDocumentOrder ==
    \A k \in 1..Len(chunks) :
        /\ origin[k] >= 0
        /\ k > 1 => origin[k] >= origin[k - 1] + Len(chunks[k - 1])

\* Chunks j < k have the same text, taken from two different pages.
SecondOccurrence(j, k) ==
    /\ j < k
    /\ chunks[j] = chunks[k]
    /\ PageIndexAt(origin[j]) # PageIndexAt(origin[k])

LocatedAtOrigin(k) ==
    /\ trace[k].chunk_start = origin[k]
    /\ yielded[k].page_num = pages[PageIndexAt(origin[k])].page_num

\* The text the chunker passed over before chunk k holds no start of a copy
\* of chunk k.
NoSkippedCopy(k) ==
    LET prevEnd == IF k = 1 THEN 0 ELSE origin[k - 1] + Len(chunks[k - 1])
    IN  \A i \in prevEnd..(origin[k] - 1) :
            Slice(all_text, i, i + Len(chunks[k])) # chunks[k]

\* C3 as stated: when the chunks come in document order, a chunk whose text
\* was already a chunk on another page is attributed to the later page, the
\* one the chunker took it from (the least the claim says: it also says where
\* the chunk is located).
C3_SecondOccurrenceLaterPage ==
    (PureRan /\ InDocumentOrder) =>
        \A k \in 1..Len(yielded) : \A j \in 1..(k - 1) :
            SecondOccurrence(j, k) =>
                yielded[k].page_num = pages[PageIndexAt(origin[k])].page_num

\* C3, amended: the same, provided that the text the chunker passed over
\* before each chunk (between the previous chunk's end, or the start of the
\* text, and the chunk) holds no start of a copy of that chunk; chunks that
\* tile the text leave no such text.
C3_SecondOccurrenceNoSkippedCopy ==
    (PureRan /\ InDocumentOrder /\ \A k \in 1..Len(chunks) : NoSkippedCopy(k)) =>
        \A k \in 1..Len(yielded) : \A j \in 1..(k - 1) :
            SecondOccurrence(j, k) => LocatedAtOrigin(k)

\* Two chunks of the same text, from two pages, with nothing passed over that
\* holds a copy, have both been yielded.
C3_Witness ==
    /\ PureRan
    /\ InDocumentOrder
    /\ \A k \in 1..Len(chunks) : NoSkippedCopy(k)
    /\ \E k \in 1..Len(yielded) : \E j \in 1..(k - 1) :
        /\ SecondOccurrence(j, k)
        /\ yielded[j].page_num # yielded[k].page_num

\* The chunker cut the text into its two sentences.
SentenceSplit ==
    /\ Len(chunks) = 2
    /\ chunks[1] \in {Sentence1, RStrip(Sentence1)}
    /\ chunks[2] = Sentence2

\* C4 as stated: with the second page at offset 19 and the text cut into its
\* two sentences, chunk 1 is attributed to page 0 and chunk 2 to page 1.
C4_SecondSentenceOnPageOne ==
    (pages = ScenarioPages(Len(Sentence1) + 1) /\ SentenceSplit /\ Len(yielded) = 2) =>
        /\ yielded[1].page_num = 0
        /\ yielded[2].page_num = 1

\* C4, amended: chunk 1 is attributed to page 0; chunk 2 starts at offset 18,
\* the length of the first page's text, and is attributed to page 1 when the
\* second page's offset is 18, and to page 0 when it is 19.
C4_SecondSentenceByOffset ==
    (pages \in {ScenarioPages(o) : o \in ScenarioOffsets} /\ SentenceSplit
        /\ Len(yielded) = 2) =>
        /\ yielded[1].page_num = 0
        /\ trace[2].chunk_start = Len(Sentence1)
        /\ yielded[2].page_num = (IF pages[2].offset <= Len(Sentence1) THEN 1 ELSE 0)

\* Both sentences were yielded for the second page at offset 19.
C4_Witness ==
    /\ pages = ScenarioPages(Len(Sentence1) + 1)
    /\ pages[2].offset = 19
    /\ SentenceSplit
    /\ Len(yielded) = 2
    /\ yielded[2].page_num = 0

\* C5 as stated: in either variant, while the consumer holds k chunks of more,
\* the chunks after the k-th are neither embedded nor passed to the store.
C5_LaterChunksUntouched ==
    (pc = "suspended" /\ Len(yielded) < Len(chunks)) =>
        /\ calls.embed <= Len(yielded)
        /\ Len(addArgs.documents) <= Len(yielded)

\* C5, amended: nothing is computed before the first chunk is requested, no
\* chunk is yielded before it is requested, and the pure pipeline never embeds
\* or stores; the storage-coupled pipeline has embedded every chunk and passed
\* every chunk to collection.add by the time it yields the first one.
C5_LazyUntilFirstChunk ==
    /\ pc = "created" => (calls = NoCalls /\ ~addArgs.called /\ yielded = <<>>)
    /\ Len(yielded) <= Len(chunks)
    /\ variant = "pure" => (calls.embed = 0 /\ calls.add = 0 /\ DOMAIN collection = {})
    /\ (variant = "store" /\ pc = "suspended") =>
        /\ calls.embed = Len(chunks)
        /\ addArgs.called
        /\ addArgs.documents = chunks

\* The consumer of the storage-coupled pipeline holds one chunk of two, and
\* both are embedded and in the collection.
C5_Witness ==
    /\ variant = "store"
    /\ pc = "suspended"
    /\ Len(yielded) = 1
    /\ Len(chunks) = 2
    /\ calls.embed = 2
    /\ ChunkId(1) \in DOMAIN collection

\* C6: the ids an invocation passes to collection.add are scoped to it: none
\* of them is an id under which an earlier invocation stored a chunk, so
\* nothing stored earlier is overwritten or collided with.
C6_IdsScopedPerInvocation ==
    addArgs.called => Range(addArgs.ids) \cap usedIds = {}

\* The chunk occurs nowhere in the text at or after the cursor.
NotFoundFrom(text, chunk, cur) ==
    \A i \in cur..Len(text) :
        i + Len(chunk) > Len(text) \/ Slice(text, i, i + Len(chunk)) # chunk

CursorBefore(k) == IF k = 1 THEN 0 ELSE trace[k - 1].current_offset

\* C7: a chunk that is not in the text at or after the cursor is yielded with
\* page_num 0, leaves the cursor where it was, and the chunks after it are
\* yielded all the same.
C7_MissYieldsPageZero ==
    variant = "pure" =>
        /\ \A k \in 1..Len(yielded) :
            /\ yielded[k].text = chunks[k]
            /\ NotFoundFrom(all_text, chunks[k], CursorBefore(k)) =>
                /\ yielded[k].page_num = 0
                /\ trace[k].current_offset = CursorBefore(k)
        /\ pc # "failed"
        /\ pc = "done" => Len(yielded) = Len(chunks)

\* The first chunk was not found, and the second was found and attributed to
\* a page of a document whose pages are numbered from 1.
C7_Witness ==
    /\ variant = "pure"
    /\ pc = "done"
    /\ Len(yielded) = 2
    /\ NotFoundFrom(all_text, chunks[1], 0)
    /\ yielded[1].page_num = 0
    /\ trace[2].chunk_start >= 0
    /\ yielded[2].page_num >= 1

\* C8: every chunk yielded is at most max_chunk_size long, whatever the
\* chunker returned.
C8_YieldedWithinMaxChunkSize ==
    \A k \in 1..Len(yielded) : Len(yielded[k].text) <= max_chunk_size

\* C9: the storage-coupled pipeline yields nothing before every chunk is
\* embedded, one embedding per chunk in chunk order, and one collection.add
\* of all chunks with the ids chunk_0 .. chunk_{n-1} has returned; after a
\* failed embedding or add the consumer has no chunk.
C9_YieldAfterEmbedAndAdd ==
    variant = "store" =>
        /\ yielded # <<>> =>
            /\ calls = [split_text |-> 1, embed |-> Len(chunks), add |-> 1]
            /\ embeddings = [k \in 1..Len(chunks) |-> [vector_of |-> chunks[k]]]
            /\ addArgs.called
            /\ addArgs.documents = chunks
            /\ addArgs.embeddings = embeddings
            /\ addArgs.ids = [k \in 1..Len(chunks) |-> <<"chunk_", k - 1>>]
            /\ \A k \in 1..Len(chunks) : <<"chunk_", k - 1>> \in DOMAIN collection
            /\ pc # "failed"
        /\ pc = "failed" => yielded = <<>>
        /\ calls.add <= 1

\* The first of two chunks has been yielded by the storage-coupled pipeline.
C9_Witness ==
    /\ variant = "store"
    /\ Len(chunks) = 2
    /\ Len(yielded) = 1
    /\ yielded[1].text = chunks[1]

====
